---- MODULE Spec2Model ----
(***************************************************************************)
(* A model of GRP_solver_EUL_source, the Eulerian GRP time stepper of      *)
(* HydroCODE (src/src/finite_volume/GRP_solver_EUL_source.c).              *)
(*                                                                         *)
(* Numbers.  The C code works on doubles.  The model works on integers    *)
(* (fixed-point units) joined by two values that are not finite: NaN,     *)
(* which stands for every non-finite double a cell, slope, flux or star   *)
(* state can hold (NaN, +inf, -inf), and INFINITY, which the time         *)
(* quantities (t_all, time_c, h_S_max) can hold.  Sums, differences and   *)
(* products are exact; a quotient is rounded toward zero (Div), as the    *)
(* double quotient is rounded to the nearest double; x/0 is not finite.   *)
(* A slope is held as h times its value (PerH), and nu = tau/h as the     *)
(* pair <<tau, h>>, so that neither is rounded when it is formed.         *)
(***************************************************************************)
EXTENDS Integers, Sequences, FiniteSets, TLC

\* ------------------------------------------------------------------ bounds
MaxM == 2           \* the meshes have 1..MaxM cells
MaxN == 2           \* config[5], the step limit N
MaxAllocFail == 1   \* at most this many of the twelve allocations fail

\* ----------------------------------------------------- non-finite doubles
NaN == 77777        \* a non-finite double (NaN or +-inf) of a fluid quantity
INFINITY == 99999   \* +inf of a time quantity

isfinite(x) == x # NaN /\ x # INFINITY
isinf(x) == x = INFINITY

Abs(x) == IF x < 0 THEN -x ELSE x
fabs(x) == IF x = NaN THEN NaN ELSE Abs(x)

\* double + - * on fluid quantities: NaN is absorbing (0 * NaN is NaN too).
FAdd(a, b) == IF a = NaN \/ b = NaN THEN NaN ELSE a + b
FSub(a, b) == IF a = NaN \/ b = NaN THEN NaN ELSE a - b
FMul(a, b) == IF a = NaN \/ b = NaN THEN NaN ELSE a * b
FNeg(a) == IF a = NaN THEN NaN ELSE -a

\* double a / b: the quotient rounded toward zero; a/0 is +-inf or NaN.
Div(a, b) ==
    IF a = NaN \/ b = NaN \/ b = 0 THEN NaN
    ELSE LET q == Abs(a) \div Abs(b)
         IN IF (a < 0) = (b < 0) THEN q ELSE -q

\* a < b on doubles: false as soon as one side is NaN.
FLt(a, b) == a # NaN /\ b # NaN /\ a < b

\* sqrt(num/den) for num >= 0, den > 0, rounded up to the grid: the least
\* c with c*c*den >= num.
RECURSIVE SqrtUp(_, _, _)
SqrtUp(num, den, c) == IF c * c * den >= num THEN c ELSE SqrtUp(num, den, c + 1)
sqrt(num, den) == SqrtUp(num, den, 0)

\* fmin on time quantities (INFINITY is the largest).
fmin(a, b) == IF a = INFINITY THEN b ELSE IF b = INFINITY THEN a
              ELSE IF a < b THEN a ELSE b

\* ------------------------------------------------------------ slope limiters
Sign(x) == IF x > 0 THEN 1 ELSE IF x < 0 THEN -1 ELSE 0
Min2(a, b) == IF a < b THEN a ELSE b

minmod2(a, b) ==
    IF a = NaN \/ b = NaN THEN NaN
    ELSE IF Sign(a) # Sign(b) THEN 0
    ELSE Sign(a) * Min2(Abs(a), Abs(b))

minmod3(a, b, c) ==
    IF a = NaN \/ b = NaN \/ c = NaN THEN NaN
    ELSE IF Sign(a) # Sign(b) \/ Sign(a) # Sign(c) THEN 0
    ELSE Sign(a) * Min2(Abs(a), Min2(Abs(b), Abs(c)))

\* ------------------------------------------------------------ configuration
eps == 2            \* config[4]
gamma == 2          \* config[6]
CFLnum == 1         \* config[7] = CFLnum / CFLden
CFLden == 1
TFinal == 3         \* the finite value of config[1]

BoundTags == {-1, -2, -4, -5, -24, -3, 0}
ValidTags == {-1, -2, -4, -5, -24}

\* <<config[1], config[16]>>: total time and fixed time step.
TimeConfigs == {<<TFinal, 1>>, <<INFINITY, 1>>}

\* <<config[10], config[41]>>: cell width and limiter parameter.
MeshConfigs == {<<1, 2>>, <<2, 1>>}

Cells(mm) == 0 .. mm - 1
Faces(mm) == 0 .. mm

n == 1              \* the row being written; row n-1 is the row being read

\* ------------------------------------------------------------ the driver's rows
(* The initial row handed to the stepper, as a function of the mesh size:  *)
(* a gas at rest, a Sod-like jump, a gas decelerating toward the right     *)
(* wall, and a row that breaks I1 (a pressure below eps in the last cell). *)
Profiles == {"rest", "sod", "decel", "bad"}

RowRHO(prof, mm) ==
    [jj \in Cells(mm) |-> IF prof = "sod" /\ 2 * jj >= mm - 1 /\ jj > 0 THEN 2 ELSE 4]
RowU(prof, mm) ==
    [jj \in Cells(mm) |-> IF prof = "decel" THEN 2 * (mm - 1 - jj) + 1 ELSE 0]
RowP(prof, mm) ==
    [jj \in Cells(mm) |->
        IF prof = "bad" /\ jj = mm - 1 THEN 1
        ELSE IF prof = "sod" /\ 2 * jj >= mm - 1 /\ jj > 0 THEN 2
        ELSE IF prof = "rest" THEN 2 ELSE 4]
\* E[0][k] = 0.5*U*U + P/(gamma-1)/RHO
RowE(rho, u, p, mm) ==
    [jj \in Cells(mm) |->
        FAdd(Div(FMul(u[jj], u[jj]), 2), Div(Div(p[jj], gamma - 1), rho[jj]))]

\* What an allocated, never written double may hold.
Garbage == {0, NaN}

\* ------------------------------------------------------------ the GRP solver
(* linear_GRP_solver_Edir(dire, mid, ...) is not among the sources.  By     *)
(* its contract it returns a star state mid (density, velocity, pressure)  *)
(* at the interface and the time                                           *)
(* derivatives dire; a failure is reported through a non-finite output or  *)
(* a star pressure below eps.  The stepper is checked against each of     *)
(* these outcomes at each interface.                                       *)
GRPOutcomes ==
    { [mid |-> <<4, 0, 4>>, dire |-> <<0, 0, 0>>],
      [mid |-> <<4, 1, 4>>, dire |-> <<-2, 2, 2>>],
      [mid |-> <<4, 0, 0>>, dire |-> <<0, 0, 0>>],
      [mid |-> <<NaN, NaN, NaN>>, dire |-> <<NaN, NaN, NaN>>] }

\* ------------------------------------------------------------ working arrays
Arrays == {"s_rho", "s_u", "s_p", "U_next", "P_next", "RHO_next",
           "U_t", "P_t", "RHO_t", "F1", "F2", "F3"}

AllocFailures == {f \in SUBSET Arrays : Cardinality(f) <= MaxAllocFail}

\* A two-row array: row 0 and row 1.
Rows(r0, r1) == [r \in {0, 1} |-> IF r = 0 THEN r0 ELSE r1]

VARIABLES st, st2
vars == <<st, st2>>

\* The stepper's state on entry: the locals of lines 35-111 and the caller's
\* arrays (row 0 the initial state, row 1 allocated and not written).
EntryOf(mm, bound, tc, mc, rho, u, p, g) ==
    LET hh == mc[1]
        alpha == mc[2]
        e == RowE(rho, u, p, mm)
        junk == [jj \in Cells(mm) |-> g]
        zc == [jj \in Cells(mm) |-> 0]
        zf == [jj \in Faces(mm) |-> 0]
    IN [ pc |-> "alloc", m |-> mm, bound |-> bound,
         t_all |-> tc[1], tau |-> tc[2], tau16 |-> tc[2],
         N |-> MaxN, config5 |-> MaxN, h |-> hh, alpha |-> alpha,
         RHO |-> Rows(rho, junk), U |-> Rows(u, junk),
         P |-> Rows(p, junk), E |-> Rows(e, junk),
         init |-> [RHO |-> rho, U |-> u, P |-> p, E |-> e],
         s_rho |-> zc, s_u |-> zc, s_p |-> zc,
         RHO_next |-> zf, U_next |-> zf, P_next |-> zf,
         RHO_t |-> zf, U_t |-> zf, P_t |-> zf,
         F1 |-> zf, F2 |-> zf, F3 |-> zf,
         Mom |-> zc, Ene |-> zc,
         UL |-> 0, PL |-> 0, RHOL |-> 0, UR |-> 0, PR |-> 0, RHOR |-> 0,
         SUL |-> 0, SPL |-> 0, SRHOL |-> 0, SUR |-> 0, SPR |-> 0, SRHOR |-> 0,
         find_bound |-> FALSE, k |-> 1, j |-> 0,
         h_S_max |-> INFINITY, nu |-> <<0, hh>>, time_c |-> 0,
         mem |-> [a \in Arrays |-> "none"], frees |-> [a \in Arrays |-> 0],
         exit |-> "none", diag |-> {} ]

\* The entry state for one of the driver's rows.
Entry(mm, bound, tc, mc, prof, g) ==
    EntryOf(mm, bound, tc, mc, RowRHO(prof, mm), RowU(prof, mm), RowP(prof, mm), g)

\* ------------------------------------------------------------ the stepper
\* Lines 69-103: the twelve allocations; f is the set of those that fail.
Allocate(s, f) ==
    LET got == [a \in Arrays |-> IF a \in f THEN "null" ELSE "live"]
    IN IF f # {}
       THEN [s EXCEPT !.mem = got, !.pc = "free", !.exit = "alloc"]
       ELSE [s EXCEPT !.mem = got, !.pc = "loop"]

\* Line 114-117: for(k = 1; k <= N; ++k) { h_S_max = INFINITY; ...
LoopHead(s) ==
    IF s.k <= s.N
    THEN [s EXCEPT !.h_S_max = INFINITY, !.pc = "boundary"]
    ELSE [s EXCEPT !.pc = "free", !.exit = "nmax"]

\* Lines 119-166: switch (bound), entered with the tag and with find_bound.
Ghosts(s, tag, found) ==
    LET r == n - 1
        last == s.m - 1
        set(ul, ur, pl, pr, rl, rr) ==
            [s EXCEPT !.find_bound = TRUE, !.pc = "slopes",
                      !.UL = ul, !.UR = ur, !.PL = pl, !.PR = pr,
                      !.RHOL = rl, !.RHOR = rr]
    IN CASE tag = -1 ->
              IF found THEN [s EXCEPT !.pc = "slopes"]
              ELSE set(s.U[0][0], s.U[0][last], s.P[0][0], s.P[0][last],
                       s.RHO[0][0], s.RHO[0][last])
         [] tag = -2 ->
              set(FNeg(s.U[r][0]), FNeg(s.U[r][last]), s.P[r][0], s.P[r][last],
                  s.RHO[r][0], s.RHO[r][last])
         [] tag = -4 ->
              set(s.U[r][0], s.U[r][last], s.P[r][0], s.P[r][last],
                  s.RHO[r][0], s.RHO[r][last])
         [] tag = -5 ->
              set(s.U[r][last], s.U[r][0], s.P[r][last], s.P[r][0],
                  s.RHO[r][last], s.RHO[r][0])
         [] tag = -24 ->
              set(FNeg(s.U[r][0]), s.U[r][last], s.P[r][0], s.P[r][last],
                  s.RHO[r][0], s.RHO[r][last])
         [] OTHER -> [s EXCEPT !.pc = "free", !.exit = "tag"]

\* Faulty variants of GhostStates: tag -24 handled as tag -2; the frozen ghosts of
\* tag -1 captured again in every step; an unknown tag handled as tag -4.
GhostStatesBothReflect(s) ==
    Ghosts(s, IF s.bound = -24 THEN -2 ELSE s.bound, s.find_bound)
GhostStatesRecapture(s) == Ghosts(s, s.bound, FALSE)
GhostStatesNoDefault(s) ==
    Ghosts(s, IF s.bound \in ValidTags THEN s.bound ELSE -4, s.find_bound)

\* Lines 119-166: the ghost states of the step, by the boundary tag.
GhostStates(s) == Ghosts(s, s.bound, s.find_bound)

(* A slope is held as h times its value, its denominator being the fixed   *)
(* mesh width h: x/h is held as x, alpha*(x/h) as alpha*x, and 0.5*h*(x/h)  *)
(* is x/2.  The limiters commute with the scaling by h > 0.                *)
PerH(x) == x

\* Lines 175-198: the one-sided differences of V at cell jj, with ghosts gl, gr.
SlopeL(s, V, gl, jj) ==
    IF jj # 0 THEN PerH(FSub(V[n-1][jj], V[n-1][jj-1]))
    ELSE PerH(FSub(V[n-1][jj], gl))
SlopeR(s, V, gr, jj) ==
    IF jj < s.m - 1 THEN PerH(FSub(V[n-1][jj+1], V[n-1][jj]))
    ELSE PerH(FSub(gr, V[n-1][jj]))

\* A faulty variant of Limited: the stored slope is never consulted.
LimitedNoMemory(s, V, gl, gr, old, jj) ==
    minmod2(SlopeL(s, V, gl, jj), SlopeR(s, V, gr, jj))

\* Lines 199-210: the limited slope of V at cell jj; old is the stored slope.
Limited(s, V, gl, gr, old, jj) ==
    IF s.k = 1
    THEN minmod2(SlopeL(s, V, gl, jj), SlopeR(s, V, gr, jj))
    ELSE minmod3(FMul(s.alpha, SlopeL(s, V, gl, jj)),
                 FMul(s.alpha, SlopeR(s, V, gr, jj)), old[jj])

\* Lines 212-225: the ghost slopes, by the boundary tag, from the slopes su, sp, sr.
GhostSlopes(s, su, sp, sr) ==
    LET last == s.m - 1
    IN CASE s.bound = -2 ->
              [s EXCEPT !.SUL = FNeg(su[0]), !.SUR = FNeg(su[last])]
         [] s.bound = -5 ->
              [s EXCEPT !.SUL = su[last], !.SUR = su[0],
                        !.SPL = sp[last], !.SPR = sp[0],
                        !.SRHOL = sr[last], !.SRHOR = sr[0]]
         [] s.bound = -24 ->
              [s EXCEPT !.SUL = FNeg(su[0])]
         [] OTHER -> s

\* Lines 169-225: the slope reconstruction of every cell, then the ghost slopes.
Reconstruct(s) ==
    LET su == [jj \in Cells(s.m) |-> Limited(s, s.U, s.UL, s.UR, s.s_u, jj)]
        sp == [jj \in Cells(s.m) |-> Limited(s, s.P, s.PL, s.PR, s.s_p, jj)]
        sr == [jj \in Cells(s.m) |-> Limited(s, s.RHO, s.RHOL, s.RHOR, s.s_rho, jj)]
    IN [GhostSlopes(s, su, sp, sr) EXCEPT
          !.s_u = su, !.s_p = sp, !.s_rho = sr, !.pc = "solve", !.j = 0]

\* 0.5*h*x, x a slope
HalfH(s, x) == Div(x, 2)

\* Lines 233-256 and 273-296: the two states and the six slopes at interface jj.
FaceStates(s, jj) ==
    LET r == n - 1
    IN [ rho_L |-> IF jj # 0 THEN FAdd(s.RHO[r][jj-1], HalfH(s, s.s_rho[jj-1]))
                   ELSE FAdd(s.RHOL, HalfH(s, s.SRHOL)),
         u_L   |-> IF jj # 0 THEN FAdd(s.U[r][jj-1], HalfH(s, s.s_u[jj-1]))
                   ELSE FAdd(s.UL, HalfH(s, s.SUL)),
         p_L   |-> IF jj # 0 THEN FAdd(s.P[r][jj-1], HalfH(s, s.s_p[jj-1]))
                   ELSE FAdd(s.PL, HalfH(s, s.SPL)),
         rho_R |-> IF jj < s.m THEN FSub(s.RHO[r][jj], HalfH(s, s.s_rho[jj]))
                   ELSE FAdd(s.RHOR, HalfH(s, s.SRHOR)),
         u_R   |-> IF jj < s.m THEN FSub(s.U[r][jj], HalfH(s, s.s_u[jj]))
                   ELSE FAdd(s.UR, HalfH(s, s.SUR)),
         p_R   |-> IF jj < s.m THEN FSub(s.P[r][jj], HalfH(s, s.s_p[jj]))
                   ELSE FAdd(s.PR, HalfH(s, s.SPR)),
         s_rho_L |-> IF jj # 0 THEN s.s_rho[jj-1] ELSE s.SRHOL,
         s_u_L   |-> IF jj # 0 THEN s.s_u[jj-1] ELSE s.SUL,
         s_p_L   |-> IF jj # 0 THEN s.s_p[jj-1] ELSE s.SPL,
         s_rho_R |-> IF jj < s.m THEN s.s_rho[jj] ELSE s.SRHOR,
         s_u_R   |-> IF jj < s.m THEN s.s_u[jj] ELSE s.SUR,
         s_p_R   |-> IF jj < s.m THEN s.s_p[jj] ELSE s.SPR ]

\* Lines 257-266: the reconstructed states are rejected.
ReconFails(f) ==
    \/ FLt(f.p_L, eps) \/ FLt(f.p_R, eps) \/ FLt(f.rho_L, eps) \/ FLt(f.rho_R, eps)
    \/ ~isfinite(f.p_L) \/ ~isfinite(f.p_R) \/ ~isfinite(f.u_L)
    \/ ~isfinite(f.u_R) \/ ~isfinite(f.rho_L) \/ ~isfinite(f.rho_R)

\* Lines 268-271: h/(|u|+c) of the two states, c = sqrt(gamma*p/rho).
HOverS(s, rho, u, p) == Div(s.h, fabs(u) + fabs(sqrt(gamma * p, rho)))
WaveBound(s, f) ==
    fmin(fmin(s.h_S_max, HOverS(s, f.rho_L, f.u_L, f.p_L)),
         HOverS(s, f.rho_R, f.u_R, f.p_R))

\* Lines 301-310: the star state is rejected.
StarFails(mid) == FLt(mid[3], eps) \/ ~isfinite(mid[2]) \/ ~isfinite(mid[3])

\* Lines 227-318, one pass of the loop body: interface s.j, the solver
\* returning o.
SolveFace(s, o) ==
    LET f == FaceStates(s, s.j)
    IN IF ReconFails(f)
       THEN [s EXCEPT !.pc = "free", !.exit = "recon",
                      !.diag = @ \cup {<<"Reconstruction", s.k>>}]
       ELSE [s EXCEPT
               !.h_S_max = WaveBound(s, f),
               !.time_c = IF StarFails(o.mid) THEN s.t_all ELSE @,
               !.diag = IF StarFails(o.mid) THEN @ \cup {<<"STAR", s.k>>} ELSE @,
               !.RHO_next[s.j] = o.mid[1], !.U_next[s.j] = o.mid[2],
               !.P_next[s.j] = o.mid[3],
               !.RHO_t[s.j] = o.dire[1], !.U_t[s.j] = o.dire[2],
               !.P_t[s.j] = o.dire[3],
               !.j = s.j + 1,
               !.pc = IF s.j = s.m THEN "tstep" ELSE "solve"]

\* double + - on time quantities, which may be +inf.
TAdd(a, b) == IF a = INFINITY \/ b = INFINITY THEN INFINITY ELSE a + b
TSub(a, b) == IF a = INFINITY THEN (IF b = INFINITY THEN NaN ELSE INFINITY) ELSE a - b
TGt(a, b) == a # NaN /\ b # NaN /\ a > b

\* CFL * x
TimesCFL(x) == IF x = INFINITY THEN INFINITY ELSE Div(CFLnum * x, CFLden)

\* A faulty variant of UsesCFL: the configured tau is never used.
UsesCFLAlways(s) == TRUE

\* Line 322: the time step is derived from the CFL condition.
UsesCFL(s) == isfinite(s.t_all) \/ ~isfinite(s.tau16) \/ s.tau16 <= 0

\* A faulty variant of ClampedTau: the CFL step is never clamped.
TauUnclamped(s, c, hs) == TimesCFL(hs)

\* A faulty variant of ClampedTau: every step runs to the final time.
TauToTheEnd(s, c, hs) == TSub(s.t_all, c)

\* Lines 324-326: the CFL step from the time c and the bound hs, clamped.
ClampedTau(s, c, hs) ==
    IF TGt(TAdd(c, TimesCFL(hs)), TSub(s.t_all, eps))
    THEN TSub(s.t_all, c)
    ELSE TimesCFL(hs)

\* Lines 320-328: the time step and nu = tau/h (kept as the pair <<tau, h>>).
TimeStep(s) ==
    LET t == IF UsesCFL(s) THEN ClampedTau(s, s.time_c, s.h_S_max) ELSE s.tau
    IN [s EXCEPT !.tau = t, !.nu = <<t, s.h>>, !.pc = "flux"]

\* 0.5 * tau * x and nu * x
HalfTau(s, x) == Div(FMul(s.tau, x), 2)
NuTimes(s, x) == Div(FMul(s.nu[1], x), s.nu[2])

\* A faulty variant of Flux: the interface values are left at the half step.
FluxKeepsHalfStep(s) ==
    LET rh == [jj \in Faces(s.m) |-> FAdd(s.RHO_next[jj], HalfTau(s, s.RHO_t[jj]))]
        uh == [jj \in Faces(s.m) |-> FAdd(s.U_next[jj], HalfTau(s, s.U_t[jj]))]
        ph == [jj \in Faces(s.m) |-> FAdd(s.P_next[jj], HalfTau(s, s.P_t[jj]))]
        f1 == [jj \in Faces(s.m) |-> FMul(rh[jj], uh[jj])]
        f2 == [jj \in Faces(s.m) |-> FAdd(FMul(f1[jj], uh[jj]), ph[jj])]
        f3 == [jj \in Faces(s.m) |->
                 FMul(FAdd(FMul(Div(gamma, gamma - 1), ph[jj]),
                           Div(FMul(f1[jj], uh[jj]), 2)), uh[jj])]
    IN [s EXCEPT
          !.F1 = f1, !.F2 = f2, !.F3 = f3,
          !.RHO_next = rh, !.U_next = uh, !.P_next = ph,
          !.pc = "update"]

\* Lines 330-344: the half-step states, the fluxes, then the full-step states.
Flux(s) ==
    LET rh == [jj \in Faces(s.m) |-> FAdd(s.RHO_next[jj], HalfTau(s, s.RHO_t[jj]))]
        uh == [jj \in Faces(s.m) |-> FAdd(s.U_next[jj], HalfTau(s, s.U_t[jj]))]
        ph == [jj \in Faces(s.m) |-> FAdd(s.P_next[jj], HalfTau(s, s.P_t[jj]))]
        f1 == [jj \in Faces(s.m) |-> FMul(rh[jj], uh[jj])]
        f2 == [jj \in Faces(s.m) |-> FAdd(FMul(f1[jj], uh[jj]), ph[jj])]
        f3 == [jj \in Faces(s.m) |->
                 FMul(FAdd(FMul(Div(gamma, gamma - 1), ph[jj]),
                           Div(FMul(f1[jj], uh[jj]), 2)), uh[jj])]
    IN [s EXCEPT
          !.F1 = f1, !.F2 = f2, !.F3 = f3,
          !.RHO_next = [jj \in Faces(s.m) |-> FAdd(rh[jj], HalfTau(s, s.RHO_t[jj]))],
          !.U_next = [jj \in Faces(s.m) |-> FAdd(uh[jj], HalfTau(s, s.U_t[jj]))],
          !.P_next = [jj \in Faces(s.m) |-> FAdd(ph[jj], HalfTau(s, s.P_t[jj]))],
          !.pc = "update"]

\* A faulty variant of NewRHO: the flux difference is taken against interface 0.
NewRHOFromFirst(s, jj) ==
    FSub(s.RHO[n-1][jj], Div(FMul(s.nu[1], FSub(s.F1[jj+1], s.F1[0])), s.nu[2]))

\* Lines 353-355: the advanced density, momentum and energy of cell jj.
NewRHO(s, jj) == FSub(s.RHO[n-1][jj], NuTimes(s, FSub(s.F1[jj+1], s.F1[jj])))
NewMom(s, jj) == FSub(FMul(s.RHO[n-1][jj], s.U[n-1][jj]),
                      NuTimes(s, FSub(s.F2[jj+1], s.F2[jj])))
NewEne(s, jj) == FSub(FMul(s.RHO[n-1][jj], s.E[n-1][jj]),
                      NuTimes(s, FSub(s.F3[jj+1], s.F3[jj])))

\* Lines 357-359: the primitive fields from the conserved ones.
NewU(s, jj) == Div(NewMom(s, jj), NewRHO(s, jj))
NewE(s, jj) == Div(NewEne(s, jj), NewRHO(s, jj))
\* A faulty variant of NewP: the whole of Mom*U is taken off the energy.
NewPFullKinetic(s, jj) ==
    FMul(FSub(NewEne(s, jj), FMul(NewMom(s, jj), NewU(s, jj))), gamma - 1)
NewP(s, jj) == FMul(FSub(NewEne(s, jj), Div(FMul(NewMom(s, jj), NewU(s, jj)), 2)),
                    gamma - 1)

\* Lines 361-370: the updated cell is rejected.
UpdateFails(s, jj) ==
    \/ FLt(NewP(s, jj), eps) \/ FLt(NewRHO(s, jj), eps)
    \/ ~isfinite(NewP(s, jj)) \/ ~isfinite(NewU(s, jj)) \/ ~isfinite(NewRHO(s, jj))

\* Lines 373-375: the slope of V_next over cell jj.
NextSlope(s, V, jj) == PerH(FSub(V[jj+1], V[jj]))

\* A faulty variant of Update: a rejected cell is reported and the time is left alone.
UpdateKeepsTime(s) ==
    LET bad == \E jj \in Cells(s.m) : UpdateFails(s, jj)
    IN [s EXCEPT
          !.RHO[n] = [jj \in Cells(s.m) |-> NewRHO(s, jj)],
          !.U[n] = [jj \in Cells(s.m) |-> NewU(s, jj)],
          !.E[n] = [jj \in Cells(s.m) |-> NewE(s, jj)],
          !.P[n] = [jj \in Cells(s.m) |-> NewP(s, jj)],
          !.Mom = [jj \in Cells(s.m) |-> NewMom(s, jj)],
          !.Ene = [jj \in Cells(s.m) |-> NewEne(s, jj)],
          !.diag = IF bad THEN @ \cup {<<"Update", s.k>>} ELSE @,
          !.s_u = [jj \in Cells(s.m) |-> NextSlope(s, s.U_next, jj)],
          !.s_p = [jj \in Cells(s.m) |-> NextSlope(s, s.P_next, jj)],
          !.s_rho = [jj \in Cells(s.m) |-> NextSlope(s, s.RHO_next, jj)],
          !.pc = "time"]

\* Lines 347-376: the update of every cell of row n, and the slope refresh.
Update(s) ==
    LET bad == \E jj \in Cells(s.m) : UpdateFails(s, jj)
    IN [s EXCEPT
          !.RHO[n] = [jj \in Cells(s.m) |-> NewRHO(s, jj)],
          !.U[n] = [jj \in Cells(s.m) |-> NewU(s, jj)],
          !.E[n] = [jj \in Cells(s.m) |-> NewE(s, jj)],
          !.P[n] = [jj \in Cells(s.m) |-> NewP(s, jj)],
          !.Mom = [jj \in Cells(s.m) |-> NewMom(s, jj)],
          !.Ene = [jj \in Cells(s.m) |-> NewEne(s, jj)],
          !.time_c = IF bad THEN s.t_all ELSE @,
          !.diag = IF bad THEN @ \cup {<<"Update", s.k>>} ELSE @,
          !.s_u = [jj \in Cells(s.m) |-> NextSlope(s, s.U_next, jj)],
          !.s_p = [jj \in Cells(s.m) |-> NextSlope(s, s.P_next, jj)],
          !.s_rho = [jj \in Cells(s.m) |-> NextSlope(s, s.RHO_next, jj)],
          !.pc = "time"]

\* A faulty variant of TimeIsUp: the loop is left only past the final time.
TimeIsUpLate(s, c) == TGt(c, s.t_all) \/ isinf(c)

\* Line 389: the loop is left.
TimeIsUp(s, c) == TGt(c, TSub(s.t_all, eps)) \/ isinf(c)

\* Lines 380-393: the time advances; the loop is left when the time is up.
TimeUpdate(s) ==
    LET c == TAdd(s.time_c, s.tau)
    IN IF TimeIsUp(s, c)
       THEN [s EXCEPT !.time_c = c, !.config5 = s.k, !.pc = "free", !.exit = "time"]
       ELSE [s EXCEPT !.time_c = c, !.pc = "copy"]

\* Lines 396-403: row n becomes row n-1, and ++k.
CopyRow(s) ==
    [s EXCEPT !.RHO[n-1] = s.RHO[n], !.U[n-1] = s.U[n],
              !.E[n-1] = s.E[n], !.P[n-1] = s.P[n],
              !.k = s.k + 1, !.pc = "loop"]

\* A faulty variant of Release: F3 is not released when the reconstruction has failed.
ReleaseLeaks(s) ==
    LET kept(a) == s.mem[a] = "null" \/ (a = "F3" /\ s.exit = "recon")
    IN [s EXCEPT
          !.mem = [a \in Arrays |-> IF kept(a) THEN s.mem[a] ELSE "freed"],
          !.frees = [a \in Arrays |-> s.frees[a] + (IF kept(a) THEN 0 ELSE 1)],
          !.pc = "done"]

\* free(p) of array a: a no-op on NULL.
FreeOne(s, a) == IF s.mem[a] = "null" THEN 0 ELSE 1

\* Lines 409-434: return_NULL.
Release(s) ==
    [s EXCEPT
       !.mem = [a \in Arrays |-> IF s.mem[a] = "null" THEN "null" ELSE "freed"],
       !.frees = [a \in Arrays |-> s.frees[a] + FreeOne(s, a)],
       !.pc = "done"]

\* ------------------------------------------------------------ one run
Off == [pc |-> "off"]

Init ==
    /\ st \in { Entry(mm, b, tc, mc, prof, g) :
                  mm \in 1 .. MaxM, b \in BoundTags, tc \in TimeConfigs,
                  mc \in MeshConfigs, prof \in Profiles, g \in Garbage }
    /\ st2 = Off

Alloc ==
    /\ st.pc = "alloc"
    /\ \E f \in AllocFailures : st' = Allocate(st, f)
    /\ UNCHANGED st2

Loop ==
    /\ st.pc = "loop"
    /\ st' = LoopHead(st)
    /\ UNCHANGED st2

Boundary ==
    /\ st.pc = "boundary"
    /\ st' = GhostStates(st)
    /\ UNCHANGED st2

Slopes ==
    /\ st.pc = "slopes"
    /\ st' = Reconstruct(st)
    /\ UNCHANGED st2

Solve ==
    /\ st.pc = "solve"
    /\ \E o \in GRPOutcomes : st' = SolveFace(st, o)
    /\ UNCHANGED st2

ChooseTau ==
    /\ st.pc = "tstep"
    /\ st' = TimeStep(st)
    /\ UNCHANGED st2

Fluxes ==
    /\ st.pc = "flux"
    /\ st' = Flux(st)
    /\ UNCHANGED st2

CellUpdate ==
    /\ st.pc = "update"
    /\ st' = Update(st)
    /\ UNCHANGED st2

Advance ==
    /\ st.pc = "time"
    /\ st' = TimeUpdate(st)
    /\ UNCHANGED st2

Shift ==
    /\ st.pc = "copy"
    /\ st' = CopyRow(st)
    /\ UNCHANGED st2

Return ==
    /\ st.pc = "free"
    /\ st' = Release(st)
    /\ UNCHANGED st2

Next ==
    \/ Alloc \/ Loop \/ Boundary \/ Slopes \/ Solve \/ ChooseTau
    \/ Fluxes \/ CellUpdate \/ Advance \/ Shift \/ Return

Spec == Init /\ [][Next]_vars

\* ------------------------------------------------------------ two mirrored runs
(* Two runs of the stepper under reflective boundaries, the second started *)
(* from the mirror image of the first row with u negated.  The interface   *)
(* solver, absent from the sources, stands here as a deterministic and     *)
(* mirror-symmetric one: the acoustic star state with unit impedance, the  *)
(* density taken upwind, and time derivatives from the mean slopes.        *)
Upwind(ustar, rho_L, rho_R) ==
    IF ustar = NaN THEN NaN
    ELSE IF ustar > 0 THEN rho_L
    ELSE IF ustar < 0 THEN rho_R
    ELSE Div(FAdd(rho_L, rho_R), 2)

AcousticGRP(f, hh) ==
    LET ustar == FAdd(Div(FAdd(f.u_L, f.u_R), 2), Div(FSub(f.p_L, f.p_R), 2))
        pstar == FAdd(Div(FAdd(f.p_L, f.p_R), 2), Div(FSub(f.u_L, f.u_R), 2))
        su == Div(FAdd(f.s_u_L, f.s_u_R), 2 * hh)
        sp == Div(FAdd(f.s_p_L, f.s_p_R), 2 * hh)
    IN [mid |-> <<Upwind(ustar, f.rho_L, f.rho_R), ustar, pstar>>,
        dire |-> <<FNeg(su), FNeg(sp), FNeg(su)>>]

SymValuesRHO == {4, 8}
SymValuesU == {-1, 1, 3}
SymValuesP == {8, 16}
SymMeshConfigs == {<<8, 1>>, <<8, 2>>}

\* The mirror image of a row about the mesh centre, and with the sign changed.
Reversed(row, mm) == [jj \in Cells(mm) |-> row[mm - 1 - jj]]
Negated(row, mm) == [jj \in Cells(mm) |-> FNeg(row[jj])]

\* One statement of the stepper, the solver being AcousticGRP.
SymStep(s) ==
    CASE s.pc = "alloc" -> Allocate(s, {})
      [] s.pc = "loop" -> LoopHead(s)
      [] s.pc = "boundary" -> GhostStates(s)
      [] s.pc = "slopes" -> Reconstruct(s)
      [] s.pc = "solve" -> SolveFace(s, AcousticGRP(FaceStates(s, s.j), s.h))
      [] s.pc = "tstep" -> TimeStep(s)
      [] s.pc = "flux" -> Flux(s)
      [] s.pc = "update" -> Update(s)
      [] s.pc = "time" -> TimeUpdate(s)
      [] s.pc = "copy" -> CopyRow(s)
      [] s.pc = "free" -> Release(s)
      [] OTHER -> s

SymInit ==
    \E mm \in 1 .. MaxM, tc \in TimeConfigs, mc \in SymMeshConfigs :
      \E rho \in [Cells(mm) -> SymValuesRHO], u \in [Cells(mm) -> SymValuesU],
         p \in [Cells(mm) -> SymValuesP] :
        /\ st = EntryOf(mm, -2, tc, mc, rho, u, p, 0)
        /\ st2 = EntryOf(mm, -2, tc, mc, Reversed(rho, mm),
                         Negated(Reversed(u, mm), mm), Reversed(p, mm), 0)

\* Both runs execute their next statement.
SymAlloc == st.pc = "alloc" /\ st' = SymStep(st) /\ st2' = SymStep(st2)
SymLoop == st.pc = "loop" /\ st' = SymStep(st) /\ st2' = SymStep(st2)
SymBoundary == st.pc = "boundary" /\ st' = SymStep(st) /\ st2' = SymStep(st2)
SymSlopes == st.pc = "slopes" /\ st' = SymStep(st) /\ st2' = SymStep(st2)
SymSolve == st.pc = "solve" /\ st' = SymStep(st) /\ st2' = SymStep(st2)
SymChooseTau == st.pc = "tstep" /\ st' = SymStep(st) /\ st2' = SymStep(st2)
SymFluxes == st.pc = "flux" /\ st' = SymStep(st) /\ st2' = SymStep(st2)
SymCellUpdate == st.pc = "update" /\ st' = SymStep(st) /\ st2' = SymStep(st2)
SymAdvance == st.pc = "time" /\ st' = SymStep(st) /\ st2' = SymStep(st2)
SymShift == st.pc = "copy" /\ st' = SymStep(st) /\ st2' = SymStep(st2)
SymReturn == st.pc = "free" /\ st' = SymStep(st) /\ st2' = SymStep(st2)
\* The first run has returned and the second has not.
SymDrain ==
    /\ st.pc = "done" /\ st2.pc # "done"
    /\ st2' = SymStep(st2) /\ UNCHANGED st

SymNext ==
    \/ SymAlloc \/ SymLoop \/ SymBoundary \/ SymSlopes \/ SymSolve
    \/ SymChooseTau \/ SymFluxes \/ SymCellUpdate \/ SymAdvance \/ SymShift
    \/ SymReturn \/ SymDrain

SpecSym == SymInit /\ [][SymNext]_vars

\* ------------------------------------------------------------ claims
\* The step has refreshed its ghost states and ghost slopes, and neither the
\* row it reads nor the slopes have been overwritten yet.
InStep == st.pc \in {"solve", "tstep", "flux", "update"}

Row0Changed ==
    \/ st.RHO[0] # st.init.RHO \/ st.U[0] # st.init.U \/ st.P[0] # st.init.P

C2_FrozenGhosts ==
    (st.bound = -1 /\ st.find_bound) =>
      /\ st.UL = st.init.U[0] /\ st.UR = st.init.U[st.m - 1]
      /\ st.PL = st.init.P[0] /\ st.PR = st.init.P[st.m - 1]
      /\ st.RHOL = st.init.RHO[0] /\ st.RHOR = st.init.RHO[st.m - 1]

\* A second step under tag -1 after row 0 has been overwritten in its end cells.
C2_Witness ==
    /\ st.bound = -1 /\ st.pc = "solve" /\ st.k = 2
    /\ st.RHO[0][0] # st.init.RHO[0]
    /\ st.RHOL = st.init.RHO[0]

\* No row, slope, interface value or flux has been written.
Untouched ==
    /\ st.RHO[0] = st.init.RHO /\ st.U[0] = st.init.U
    /\ st.P[0] = st.init.P /\ st.E[0] = st.init.E
    /\ \E g \in Garbage : \A V \in {st.RHO, st.U, st.P, st.E} :
          \A jj \in Cells(st.m) : V[1][jj] = g
    /\ \A jj \in Cells(st.m) : st.s_u[jj] = 0 /\ st.s_p[jj] = 0 /\ st.s_rho[jj] = 0
    /\ \A jj \in Faces(st.m) :
          /\ st.RHO_next[jj] = 0 /\ st.U_next[jj] = 0 /\ st.P_next[jj] = 0
          /\ st.F1[jj] = 0 /\ st.F2[jj] = 0 /\ st.F3[jj] = 0

\* C3: with a boundary tag that is none of -1, -2, -4, -5, -24 the stepper
\* leaves in its first step, from the boundary switch, with every row as it
\* was and no reconstruction, interface solve or update done.
C3_BadTagIsFatal ==
    st.bound \notin ValidTags =>
      /\ st.pc \in {"alloc", "loop", "boundary", "free", "done"}
      /\ st.k = 1 /\ st.time_c = 0 /\ st.diag = {}
      /\ Untouched
      /\ st.pc \in {"free", "done"} => st.exit \in {"alloc", "tag"}

\* The stepper has returned from the boundary switch of step 1.
C3_Witness ==
    /\ st.bound \notin ValidTags /\ st.pc = "done" /\ st.exit = "tag"
    /\ st.m = 2 /\ Untouched

Returned == st.pc = "done"

\* The steps in which a diagnostic was printed.
FailedSteps == {d[2] : d \in st.diag}

\* C4 (as claimed): whenever an error arose inside step k, the stepper has
\* written k to config[5] when it returns, on every failure path.
C4_StepIndexWritten ==
    (Returned /\ st.diag # {}) => \A kk \in FailedSteps : st.config5 = kk

\* The stepper has returned from a reconstruction failure in step 1 and
\* config[5] still holds the step limit.
C4_Witness ==
    /\ Returned /\ st.exit = "recon"
    /\ st.diag = {<<"Reconstruction", 1>>}
    /\ st.config5 = st.N /\ st.config5 # 1

\* C4, the paths on which it does hold: a star-state or update failure.
C4_StepIndexWrittenUnlessRecon ==
    (Returned /\ st.diag # {} /\ st.exit # "recon") =>
        \A kk \in FailedSteps : st.config5 = kk

\* C5 (as claimed): after a failure in step k no further step is begun and
\* row 1, the row the caller writes, holds the state the step started from
\* (row 0: the state at the end of step k-1, the initial state for k = 1).
C5_PreviousStateKept ==
    (Returned /\ st.diag # {}) =>
        /\ FailedSteps = {st.k}
        /\ st.RHO[1] = st.RHO[0] /\ st.U[1] = st.U[0]
        /\ st.P[1] = st.P[0] /\ st.E[1] = st.E[0]

\* The stepper has returned from an update failure, row n-1 is valid and
\* the row the caller writes holds a cell below eps.
C5_Witness ==
    /\ Returned /\ st.exit = "time" /\ st.diag = {<<"Update", st.k>>}
    /\ \A jj \in Cells(st.m) : st.RHO[0][jj] >= eps /\ st.P[0][jj] >= eps
    /\ \E jj \in Cells(st.m) : FLt(st.RHO[1][jj], eps) \/ FLt(st.P[1][jj], eps)

\* C5, its first half: after a failure in step k no further step is begun.
C5_NoFurtherStep ==
    (st.diag # {}) => (FailedSteps = {st.k} /\ st.pc # "copy" /\ st.pc # "loop")

\* C6: when the stepper has returned, each of the twelve working arrays that
\* was allocated has been released exactly once, whatever the exit path; and
\* none is released before.
C6_ReleasedOnce ==
    /\ Returned =>
         /\ st.exit \in {"alloc", "tag", "recon", "time", "nmax"}
         /\ \A a \in Arrays :
              \/ st.mem[a] = "freed" /\ st.frees[a] = 1
              \/ st.mem[a] = "null" /\ st.frees[a] = 0
    /\ ~Returned => \A a \in Arrays : st.frees[a] = 0

\* The stepper has returned through the reconstruction failure of a mesh
\* whose arrays were all allocated.
C6_Witness ==
    /\ Returned /\ st.exit = "recon"
    /\ \A a \in Arrays : st.mem[a] = "freed" /\ st.frees[a] = 1

RECURSIVE SumTo(_, _)
SumTo(f, last) == IF last < 0 THEN 0 ELSE f[last] + SumTo(f, last - 1)
Sum(f) == SumTo(f, st.m - 1)

\* The cells have been updated from finite fluxes, and row n-1 still holds
\* the state the step started from.
Updated ==
    /\ st.pc = "time"
    /\ \A jj \in Faces(st.m) :
          isfinite(st.F1[jj]) /\ isfinite(st.F2[jj]) /\ isfinite(st.F3[jj])

\* nu * x is computed without rounding for every flux difference of F.
NuExact(F) ==
    \A jj \in Cells(st.m) : (st.nu[1] * (F[jj+1] - F[jj])) % st.nu[2] = 0

\* sum_new - sum_old = -nu*(F[m] - F[0]), with nu = tau/h; and, whatever
\* the rounding, within one unit per cell of it.
Balance(new, old, F) ==
    LET gain == st.nu[2] * (Sum(new) - Sum(old))
        influx == -st.nu[1] * (F[st.m] - F[0])
    IN /\ NuExact(F) => gain = influx
       /\ Abs(gain - influx) <= st.m * (st.nu[2] - 1)

\* C7: in every step the sums over the cells of rho, of the momentum rho*u
\* and of the energy rho*E change by the net boundary flux alone,
\* -nu*(F[m] - F[0]) for F1, F2 and F3: the interior fluxes cancel.
C7_Conservation ==
    Updated =>
      /\ Balance(st.RHO[n], st.RHO[n-1], st.F1)
      /\ Balance(st.Mom, [jj \in Cells(st.m) |-> st.RHO[n-1][jj] * st.U[n-1][jj]], st.F2)
      /\ Balance(st.Ene, [jj \in Cells(st.m) |-> st.RHO[n-1][jj] * st.E[n-1][jj]], st.F3)

\* A step of a two-cell mesh with a flux through the interior interface, a
\* net flux through the boundary and an exact nu.
C7_Witness ==
    /\ Updated /\ st.m = 2 /\ st.nu[1] > 0
    /\ st.F1[1] # st.F1[0] /\ st.F1[2] # st.F1[0]
    /\ NuExact(st.F1) /\ NuExact(st.F2) /\ NuExact(st.F3)
    /\ Sum(st.RHO[n]) # Sum(st.RHO[n-1])

\* Row r of the second run is the mirror image of row r of the first, with
\* u negated.
MirrorRow(r) ==
    /\ st2.RHO[r] = Reversed(st.RHO[r], st.m)
    /\ st2.P[r] = Reversed(st.P[r], st.m)
    /\ st2.U[r] = Negated(Reversed(st.U[r], st.m), st.m)

\* Both runs have updated their cells in the same step.
BothUpdated == st.pc = "time" /\ st2.pc = "time" /\ st.k = st2.k

\* C8 (as claimed): under the reflective tag -2, two runs started from
\* mirror-negated rows hold mirror-negated rows after every step, the
\* interface solver being mirror-symmetric.
C8_MirrorKept == BothUpdated => MirrorRow(n)

\* Both runs have completed a step without any diagnostic and the rows they
\* hold are finite and no longer mirror images of each other.
C8_Witness ==
    /\ BothUpdated /\ st.diag = {} /\ st2.diag = {}
    /\ MirrorRow(n-1) /\ ~MirrorRow(n)
    /\ \A jj \in Cells(st.m) : isfinite(st.U[n][jj]) /\ isfinite(st2.U[n][jj])

\* Every cell of the row has finite rho >= eps and p >= eps.
ValidRow(RHOr, Pr, mm) ==
    \A jj \in Cells(mm) :
       /\ isfinite(RHOr[jj]) /\ isfinite(Pr[jj])
       /\ RHOr[jj] >= eps /\ Pr[jj] >= eps

\* A step is under way: row n-1 is its input.
StepUnderWay ==
    st.pc \in {"boundary", "slopes", "solve", "tstep", "flux", "update", "time"}

\* C9: given an initial row whose cells all have rho >= eps and p >= eps,
\* every step starts from a row n-1 in which every cell has finite rho >= eps
\* and p >= eps; a row with a cell below eps or a non-finite value is never
\* copied to row n-1, and no step is begun after a failure was reported.
C9_StepsStartValid ==
    ValidRow(st.init.RHO, st.init.P, st.m) =>
      /\ StepUnderWay => ValidRow(st.RHO[n-1], st.P[n-1], st.m)
      /\ st.pc = "copy" => ValidRow(st.RHO[n], st.P[n], st.m)
      /\ (st.pc = "boundary" /\ st.k > 1) => st.diag = {}

\* A second step has begun from a row that the first step changed.
C9_Witness ==
    /\ ValidRow(st.init.RHO, st.init.P, st.m)
    /\ st.pc = "boundary" /\ st.k = 2
    /\ st.RHO[n-1] # st.init.RHO

\* The time step of a run with a finite final time has been chosen, and the
\* time it starts from is still in time_c.
TauChosen == st.pc = "flux" /\ isfinite(st.t_all)

\* C10 (as claimed): with a finite final time the clamp only ever shortens
\* the CFL step: 0 <= tau <= CFL*h_S_max, so that tau*S_max/h <= 1.
C10_ClampOnlyShortens ==
    TauChosen =>
      /\ 0 <= st.tau
      /\ st.tau <= TimesCFL(st.h_S_max)
      /\ st.tau <= st.h_S_max

\* C10, as the code has it: tau is CFL*h_S_max, unless the step would end
\* later than t_final - eps, and then tau is t_final - time_c: the rest of
\* the run, which is shorter than CFL*h_S_max + eps and may be longer than
\* CFL*h_S_max.  So 0 <= tau < CFL*h_S_max + eps.
C10_ClampWithinEps ==
    TauChosen =>
      LET cfl == TimesCFL(st.h_S_max)
      IN /\ 0 <= st.tau
         /\ st.tau < cfl + eps
         /\ \/ st.tau = cfl /\ st.time_c + cfl <= st.t_all - eps
            \/ st.tau = st.t_all - st.time_c /\ st.time_c + cfl > st.t_all - eps

\* The clamp has lengthened the step beyond the CFL bound.
C10_Witness ==
    /\ TauChosen /\ st.diag = {}
    /\ st.tau > TimesCFL(st.h_S_max)
    /\ st.tau = st.t_all - st.time_c

\* The step in which an update failure was reported has advanced its time.
UpdateFailed(s) == \E d \in s.diag : d[1] = "Update"

\* C11 (as claimed): with a finite final time, time_c never decreases, never
\* exceeds t_final, and equals t_final when the loop is left at the time check.
C11_TimeNeverPassesFinal ==
    [][isfinite(st.t_all) =>
         /\ st'.time_c >= st.time_c
         /\ st'.time_c <= st.t_all
         /\ (st'.exit = "time" => st'.time_c = st.t_all)]_vars

\* C11, as the code has it: the clamp makes time_c + tau <= t_final when the
\* step is chosen; time_c never decreases; it stays within t_final unless an
\* update failure was reported, which sets time_c to t_final before the
\* step's tau is added (time_c = t_final + tau on exit); and the loop left at
\* the time check without an update failure has time_c = t_final.
C11_TimeWithinFinalUnlessUpdateFails ==
    [][isfinite(st.t_all) =>
         /\ st'.time_c >= st.time_c
         /\ st'.pc = "flux" => st'.time_c + st'.tau <= st.t_all
         /\ ~UpdateFailed(st') => st'.time_c <= st.t_all
         /\ (st'.exit = "time" /\ ~UpdateFailed(st')) => st'.time_c = st.t_all
         /\ (st'.exit = "time" /\ UpdateFailed(st')) =>
               st'.time_c = st.t_all + st.tau]_vars

\* The loop has been left at the time check of the second step, with no
\* diagnostic, at the final time.
C11_Witness ==
    /\ isfinite(st.t_all) /\ st.exit = "time" /\ st.diag = {}
    /\ st.k = 2 /\ st.time_c = st.t_all

\* A step has just begun.
StepBegun == st.pc = "boundary"

\* At most N steps are begun.
AtMostNSteps == StepUnderWay => st.k <= st.N

(* A variant of the loop: the statements still ahead of the stepper, at     *)
(* most, counted as the steps not yet begun times the statements of a step *)
(* plus the statements left in the current step.  It is a natural number   *)
(* and every statement lowers it, so no run executes more than             *)
(* Rank(entry) statements.                                                 *)
StepLength == MaxM + 12
LeftInStep(s) ==
    CASE s.pc = "loop" -> s.m + 11
      [] s.pc = "boundary" -> s.m + 10
      [] s.pc = "slopes" -> s.m + 9
      [] s.pc = "solve" -> s.m + 8 - s.j
      [] s.pc = "tstep" -> 6
      [] s.pc = "flux" -> 5
      [] s.pc = "update" -> 4
      [] s.pc = "time" -> 3
      [] s.pc = "copy" -> 2
Rank(s) ==
    CASE s.pc = "done" -> 0
      [] s.pc = "free" -> 1
      [] s.pc = "alloc" -> (s.N + 2) * StepLength
      [] OTHER -> (s.N + 1 - s.k) * StepLength + LeftInStep(s)

\* The guards of the actions of Next: a statement is there to execute.
HasNextStatement ==
    st.pc \in {"alloc", "loop", "boundary", "slopes", "solve", "tstep",
               "flux", "update", "time", "copy", "free"}

\* The stepper runs to its return: it is never stuck before it, and every
\* statement lowers the variant.
RunsToReturn ==
    /\ [](~Returned => HasNextStatement)
    /\ [](Rank(st) \in Nat)
    /\ [][Rank(st') < Rank(st)]_vars

\* C12 (as claimed): the loop terminates, takes at most N_max steps, and
\* takes no further step once time_c >= t_final - eps.
C12_StopsOnceFinalMinusEpsReached ==
    /\ RunsToReturn
    /\ [](AtMostNSteps /\
          ((StepBegun /\ isfinite(st.t_all)) => st.time_c < st.t_all - eps))

\* C12, as the code has it: the loop terminates, takes at most N_max steps,
\* makes the time check once, after the cell update of each step, and takes
\* no further step once time_c > t_final - eps (or time_c is infinite): a
\* step that ends with time_c = t_final - eps exactly is followed by another.
C12_StopsOncePastFinalMinusEps ==
    /\ RunsToReturn
    /\ [](AtMostNSteps /\
          (StepBegun => (~TGt(st.time_c, TSub(st.t_all, eps)) /\ ~isinf(st.time_c))))
    /\ [][(st'.pc = "copy" \/ (st'.exit = "time" /\ st.exit # "time")) =>
             st.pc = "time"]_vars

\* A second step has begun although the first ended at t_final - eps exactly.
C12_Witness ==
    /\ StepBegun /\ st.k = 2 /\ isfinite(st.t_all)
    /\ st.time_c = st.t_all - eps

\* The time step of the step under way has been chosen.
TauOfStep == st.pc \in {"flux", "update", "time"}

\* C13: with a finite t_final every step uses the CFL-derived (clamped) tau,
\* whatever config[16] holds; with an infinite t_final and a finite positive
\* config[16] every step uses tau = config[16], and a run without failure
\* takes exactly N_max steps and leaves config[5] as it was.
C13_FixedTauOnlyWithoutFinalTime ==
    /\ (st.pc = "flux" /\ isfinite(st.t_all)) =>
          st.tau = ClampedTau(st, st.time_c, st.h_S_max)
    /\ (TauOfStep /\ ~isfinite(st.t_all) /\ isfinite(st.tau16) /\ st.tau16 > 0) =>
          st.tau = st.tau16
    /\ (Returned /\ ~isfinite(st.t_all) /\ isfinite(st.tau16) /\ st.tau16 > 0
          /\ st.diag = {} /\ st.exit \notin {"alloc", "tag"}) =>
          /\ st.exit = "nmax" /\ st.k = st.N + 1
          /\ st.config5 = st.N
          /\ st.time_c = st.N * st.tau16

\* A run with the fixed tau has returned after N_max steps without failure;
\* the CFL step of its last step would have been another.
C13_Witness ==
    /\ Returned /\ ~isfinite(st.t_all) /\ st.diag = {} /\ st.exit = "nmax"
    /\ st.k = st.N + 1 /\ st.tau = st.tau16
    /\ TimesCFL(st.h_S_max) # st.tau16
    /\ st.RHO[n] # st.init.RHO

\* Row r of the four arrays holds the initial state.
HoldsInitial(r) ==
    /\ st.RHO[r] = st.init.RHO /\ st.U[r] = st.init.U
    /\ st.P[r] = st.init.P /\ st.E[r] = st.init.E

\* C14 (as claimed): when the stepper has returned, whatever the number of
\* steps taken, row 0 still holds the initial state supplied by the driver.
C14_Row0StaysInitial == Returned => HoldsInitial(0)

\* The stepper has returned from a run without diagnostic and row 0 no
\* longer holds the initial state.
C14_Witness ==
    /\ Returned /\ st.diag = {} /\ st.exit \in {"time", "nmax"}
    /\ st.RHO[0] # st.init.RHO

\* The phases of a step follow one another in the order boundary refresh,
\* slope reconstruction, interface solves, time-step choice, flux assembly,
\* cell update (with the slope refresh), time check.
PhaseOrder ==
    /\ st.pc = "boundary" => st'.pc \in {"slopes", "free"}
    /\ st.pc = "slopes" => st'.pc = "solve" /\ st'.j = 0
    /\ st.pc = "solve" =>
          \/ st'.pc = "solve" /\ st'.j = st.j + 1 /\ st.j < st.m
          \/ st'.pc = "tstep" /\ st.j = st.m
          \/ st'.pc = "free"
    /\ st.pc = "tstep" => st'.pc = "flux"
    /\ st.pc = "flux" => st'.pc = "update"
    /\ st.pc = "update" => st'.pc = "time"

\* The stored slopes change in the reconstruction and in the cell update only.
SlopesKept == st'.s_u = st.s_u /\ st'.s_p = st.s_p /\ st'.s_rho = st.s_rho

\* The slopes of every cell are the differences of the interface values V.
SlopesFrom(s, Un, Pn, Rn) ==
    \A jj \in Cells(s.m) :
       /\ s.s_u[jj] = PerH(FSub(Un[jj+1], Un[jj]))
       /\ s.s_p[jj] = PerH(FSub(Pn[jj+1], Pn[jj]))
       /\ s.s_rho[jj] = PerH(FSub(Rn[jj+1], Rn[jj]))

\* V* + tau/2 * dV/dt and V* + tau * dV/dt at every interface.
HalfStep(s, V, Vt) == [jj \in Faces(s.m) |-> FAdd(V[jj], HalfTau(s, Vt[jj]))]
FullStep(s, V, Vt) == HalfStep(s, HalfStep(s, V, Vt), Vt)

\* The half-step values, recovered from the full-step values V.
HalfStepBack(s, V, Vt) == [jj \in Faces(s.m) |-> FSub(V[jj], HalfTau(s, Vt[jj]))]

\* The fluxes are those of the half-step states, and the interface arrays
\* are advanced to the full step.
FluxStage ==
    LET uh == HalfStep(st, st.U_next, st.U_t)
        rh == HalfStep(st, st.RHO_next, st.RHO_t)
    IN /\ st'.F1 = [jj \in Faces(st.m) |-> FMul(rh[jj], uh[jj])]
       /\ st'.U_next = FullStep(st, st.U_next, st.U_t)
       /\ st'.P_next = FullStep(st, st.P_next, st.P_t)
       /\ st'.RHO_next = FullStep(st, st.RHO_next, st.RHO_t)

\* The cell update leaves the fluxes and the interface arrays alone.
FacesKept ==
    /\ st'.F1 = st.F1 /\ st'.F2 = st.F2 /\ st'.F3 = st.F3
    /\ st'.U_next = st.U_next /\ st'.P_next = st.P_next
    /\ st'.RHO_next = st.RHO_next

\* C15 (as claimed): the phases of a step run in order, no slope is refreshed
\* before the fluxes of all interfaces are assembled, and the slopes stored
\* for step k+1 are the differences of the half-step interface states
\* V* + tau/2 * dV/dt of step k.
C15_SlopesFromHalfStep ==
    [][/\ PhaseOrder
       /\ st.pc \notin {"slopes", "update"} => SlopesKept
       /\ st.pc = "flux" => FluxStage
       /\ st.pc = "update" =>
            /\ FacesKept
            /\ SlopesFrom(st', HalfStepBack(st, st.U_next, st.U_t),
                          HalfStepBack(st, st.P_next, st.P_t),
                          HalfStepBack(st, st.RHO_next, st.RHO_t))
      ]_vars

\* C15, as the code has it: the same order, and the slopes stored for step
\* k+1 are the differences of the full-step interface states
\* V* + tau * dV/dt of step k, which the flux stage leaves in V_next; not of
\* the half-step states, and not of the updated cell averages.
C15_SlopesFromFullStep ==
    [][/\ PhaseOrder
       /\ st.pc \notin {"slopes", "update"} => SlopesKept
       /\ st.pc = "flux" => FluxStage
       /\ st.pc = "update" =>
            /\ FacesKept
            /\ SlopesFrom(st', st.U_next, st.P_next, st.RHO_next)
      ]_vars

\* The slopes have been refreshed in a step whose half-step and full-step
\* interface states give different slopes.
C15_Witness ==
    /\ st.pc = "time" /\ st.tau > 0 /\ st.diag = {}
    /\ SlopesFrom(st, st.U_next, st.P_next, st.RHO_next)
    /\ ~SlopesFrom(st, HalfStepBack(st, st.U_next, st.U_t),
                   HalfStepBack(st, st.P_next, st.P_t),
                   HalfStepBack(st, st.RHO_next, st.RHO_t))

\* Twice p - (gamma-1)*(rho*E - rho*u*u/2): zero when the identity holds.
EOSResidual(rho, u, e, p) == 2 * p - (gamma - 1) * (2 * rho * e - rho * u * u)

\* The cell of row n just updated holds finite fields, from a non-zero density.
FiniteCell(jj) ==
    /\ isfinite(st.RHO[n][jj]) /\ isfinite(st.U[n][jj])
    /\ isfinite(st.E[n][jj]) /\ isfinite(st.P[n][jj])
    /\ isfinite(st.Mom[jj]) /\ isfinite(st.Ene[jj]) /\ st.RHO[n][jj] # 0

\* The quotients u = Mom/rho and E = Ene/rho and the half of Mom*u were
\* formed without rounding.
ExactCell(jj) ==
    /\ st.Mom[jj] = st.RHO[n][jj] * st.U[n][jj]
    /\ st.Ene[jj] = st.RHO[n][jj] * st.E[n][jj]
    /\ (st.Mom[jj] * st.U[n][jj]) % 2 = 0

\* The same for the driver's E = u*u/2 + p/(gamma-1)/rho.
ExactInitialCell(jj) ==
    /\ (st.init.U[jj] * st.init.U[jj]) % 2 = 0
    /\ st.init.P[jj] % ((gamma - 1) * st.init.RHO[jj]) = 0

\* C16: after every cell update the stored fields of each cell satisfy
\* p = (gamma-1)*(rho*E - rho*u*u/2), and so does the driver's initial row:
\* exactly when the quotients are exact, and within their rounding otherwise.
C16_EquationOfState ==
    /\ st.pc = "time" =>
         \A jj \in Cells(st.m) : FiniteCell(jj) =>
            LET r == EOSResidual(st.RHO[n][jj], st.U[n][jj], st.E[n][jj], st.P[n][jj])
                a == Abs(st.RHO[n][jj]) - 1
            IN /\ ExactCell(jj) => r = 0
               /\ Abs(r) <= (gamma - 1) * (2 * a + a * Abs(st.U[n][jj]) + 1)
    /\ \A jj \in Cells(st.m) :
          LET r == EOSResidual(st.init.RHO[jj], st.init.U[jj],
                               st.init.E[jj], st.init.P[jj])
          IN /\ ExactInitialCell(jj) => r = 0
             /\ Abs(r) <= 3 * (gamma - 1) * st.init.RHO[jj] + 2 * gamma

\* A cell has been updated to a moving state without rounding, from an
\* initial row whose quotients are exact as well.
C16_Witness ==
    /\ st.pc = "time" /\ st.diag = {}
    /\ \E jj \in Cells(st.m) :
          /\ FiniteCell(jj) /\ ExactCell(jj) /\ st.U[n][jj] # 0
          /\ st.P[n][jj] # st.P[n-1][jj]
    /\ \A jj \in Cells(st.m) : ExactInitialCell(jj)

\* h times the one-sided differences of the row V at cell jj, the ghost
\* values gl and gr standing in beyond cells 0 and m-1.
OneSidedL(V, gl, jj) == FSub(V[jj], IF jj = 0 THEN gl ELSE V[jj-1])
OneSidedR(V, gr, jj) == FSub(IF jj = st.m - 1 THEN gr ELSE V[jj+1], V[jj])

\* The slope sNew of cell jj is the limited one: minmod2 in step 1, minmod3
\* with the alpha-scaled differences and the stored slope sPrev afterwards.
LimitedWithMemory(V, gl, gr, sPrev, sNew, jj) ==
    LET sL == OneSidedL(V, gl, jj)
        sR == OneSidedR(V, gr, jj)
    IN sNew[jj] = IF st.k = 1 THEN minmod2(sL, sR)
                  ELSE minmod3(FMul(st.alpha, sL), FMul(st.alpha, sR), sPrev[jj])

\* C17: in step 1 each slope of u, p and rho is minmod2(s_L, s_R) of the
\* one-sided differences, with the ghost values at cells 0 and m-1; in every
\* later step it is minmod3(alpha*s_L, alpha*s_R, s_prev[j]), s_prev[j] being
\* the slope stored at the end of the step before, which is
\* (V_next[j+1] - V_next[j])/h of that step's full-step interface values
\* V_next = V* + tau * dV/dt.
C17_SlopeLimitingWithMemory ==
    [][/\ st.pc = "slopes" =>
            /\ \A jj \in Cells(st.m) :
                  /\ LimitedWithMemory(st.U[n-1], st.UL, st.UR, st.s_u, st'.s_u, jj)
                  /\ LimitedWithMemory(st.P[n-1], st.PL, st.PR, st.s_p, st'.s_p, jj)
                  /\ LimitedWithMemory(st.RHO[n-1], st.RHOL, st.RHOR,
                                       st.s_rho, st'.s_rho, jj)
            /\ st.k > 1 => SlopesFrom(st, st.U_next, st.P_next, st.RHO_next)
       /\ st.pc = "flux" =>
            /\ st'.U_next = FullStep(st, st.U_next, st.U_t)
            /\ st'.P_next = FullStep(st, st.P_next, st.P_t)
            /\ st'.RHO_next = FullStep(st, st.RHO_next, st.RHO_t)
       /\ st.pc = "update" => SlopesFrom(st', st.U_next, st.P_next, st.RHO_next)
       /\ st.pc \notin {"solve", "flux"} =>
            /\ st'.U_next = st.U_next /\ st'.P_next = st.P_next
            /\ st'.RHO_next = st.RHO_next
      ]_vars

\* Step 2 has limited the slopes, and in some cell the stored slope of step 1
\* decided the velocity slope: it is not the minmod2 of the two differences.
C17_Witness ==
    /\ st.pc = "solve" /\ st.j = 0 /\ st.k = 2 /\ st.diag = {}
    /\ \E jj \in Cells(st.m) :
          /\ st.s_u[jj] # 0
          /\ st.s_u[jj] = PerH(FSub(st.U_next[jj+1], st.U_next[jj]))
          /\ st.s_u[jj] # minmod2(OneSidedL(st.U[n-1], st.UL, jj),
                                  OneSidedR(st.U[n-1], st.UR, jj))

\* ------------------------------------------------------------ periodic runs
(* With one or two cells the two one-sided differences of a periodic row   *)
(* have opposite signs and every limited slope is zero; the periodic runs  *)
(* take three cells, and velocities two apart so that half a slope is a    *)
(* whole number.                                                           *)
PerM == 3
PerValuesU == {0, 2, 4}

PerInit ==
    /\ \E tc \in TimeConfigs, u \in [Cells(PerM) -> PerValuesU] :
          st = EntryOf(PerM, -5, tc, <<1, 1>>, [jj \in Cells(PerM) |-> 4], u,
                       [jj \in Cells(PerM) |-> 4], 0)
    /\ st2 = Off

SpecPer == PerInit /\ [][Next]_vars

\* The slopes of the step have been limited and no interface is solved yet.
Reconstructed == st.pc = "solve" /\ st.j = 0

\* C18 (as claimed): under tag -5 the left state, the right state and the six
\* slopes handed to the solver at interface 0 are those handed to it at
\* interface m, in every step.
C18_PeriodicInterfacesCoincide ==
    (st.bound = -5 /\ st.pc = "solve") =>
        FaceStates(st, 0) = FaceStates(st, st.m)

\* A periodic step in which the two interfaces get the same left state and
\* the same six slopes, and right states that differ by h times the slope of
\* cell 0: U[0] - h/2*s_u[0] at interface 0, U[0] + h/2*s_u[0] at interface m.
C18_Witness ==
    LET f0 == FaceStates(st, 0)
        fm == FaceStates(st, st.m)
    IN /\ st.bound = -5 /\ Reconstructed /\ st.diag = {}
       /\ f0.u_L = fm.u_L /\ f0.p_L = fm.p_L /\ f0.rho_L = fm.rho_L
       /\ f0.s_u_L = fm.s_u_L /\ f0.s_u_R = fm.s_u_R
       /\ f0.s_p_L = fm.s_p_L /\ f0.s_p_R = fm.s_p_R
       /\ f0.s_rho_L = fm.s_rho_L /\ f0.s_rho_R = fm.s_rho_R
       /\ st.s_u[0] # 0
       /\ f0.u_R = FSub(st.U[n-1][0], HalfH(st, st.s_u[0]))
       /\ fm.u_R = FAdd(st.U[n-1][0], HalfH(st, st.s_u[0]))
       /\ f0.u_R # fm.u_R
       /\ ~ReconFails(f0) /\ ~ReconFails(fm)

\* The two states handed to the solver at interface jj mirror each other.
MirrorStates(f) == f.rho_L = f.rho_R /\ f.p_L = f.p_R /\ f.u_L = FNeg(f.u_R)

\* C19 (as claimed): under tag -2 the two states handed to the solver at each
\* wall interface are mirror images, rho_L = rho_R, p_L = p_R and u_L = -u_R,
\* at j = 0 and at j = m, in every step.
C19_WallStatesMirrored ==
    (st.bound = -2 /\ st.pc = "solve") =>
        /\ MirrorStates(FaceStates(st, 0))
        /\ MirrorStates(FaceStates(st, st.m))

\* A reflective step whose states at the right wall mirror each other and
\* whose states at the left wall have equal densities and pressures and
\* velocities -(U[0] + h/2*s_u[0]) and U[0] - h/2*s_u[0], with s_u[0] not zero.
C19_Witness ==
    LET f0 == FaceStates(st, 0)
        fm == FaceStates(st, st.m)
    IN /\ st.bound = -2 /\ Reconstructed /\ st.diag = {}
       /\ MirrorStates(fm)
       /\ f0.rho_L = f0.rho_R /\ f0.p_L = f0.p_R
       /\ st.s_u[0] # 0
       /\ f0.u_L = FNeg(FAdd(st.U[n-1][0], HalfH(st, st.s_u[0])))
       /\ f0.u_R = FSub(st.U[n-1][0], HalfH(st, st.s_u[0]))
       /\ f0.u_L # FNeg(f0.u_R)
       /\ ~ReconFails(f0) /\ ~ReconFails(fm)

\* ------------------------------------------------------------ array accesses
\* The driver's row count: RHO, U, P, E have NRows rows of m cells, and
\* cpu_time NRows elements.
NRows == 2

(* The elements the statement at s.pc reads or writes, as <<class, row,     *)
(* index>>: "cell" for RHO/U/P/E, "slope" for s_rho/s_u/s_p, "face" for the *)
(* nine arrays of m+1 interface values, "cpu" for cpu_time.  In the slope   *)
(* loop the left neighbour is read unless j = lo and the right neighbour   *)
(* unless j = hi.                                                           *)
AccessesOf(s, lo, hi) ==
    LET r == n - 1
        last == s.m - 1
        cell(row, I) == {<<"cell", row, i>> : i \in I}
        slope(I) == {<<"slope", 0, i>> : i \in I}
        face(I) == {<<"face", 0, i>> : i \in I}
    IN CASE s.pc = "boundary" ->
              IF s.bound = -1 THEN (IF s.find_bound THEN {} ELSE cell(0, {0, last}))
              ELSE IF s.bound \in ValidTags THEN cell(r, {0, last})
              ELSE {}
         [] s.pc = "slopes" ->
              cell(r, Cells(s.m))
              \cup cell(r, {jj - 1 : jj \in {i \in Cells(s.m) : i # lo}})
              \cup cell(r, {jj + 1 : jj \in {i \in Cells(s.m) : i # hi}})
              \cup slope(Cells(s.m))
              \cup (IF s.bound \in {-2, -5} THEN slope({0, last})
                    ELSE IF s.bound = -24 THEN slope({0}) ELSE {})
         [] s.pc = "solve" ->
              (IF s.j # 0 THEN cell(r, {s.j - 1}) \cup slope({s.j - 1}) ELSE {})
              \cup (IF s.j < s.m THEN cell(r, {s.j}) \cup slope({s.j}) ELSE {})
              \cup (IF ReconFails(FaceStates(s, s.j)) THEN {} ELSE face({s.j}))
         [] s.pc = "flux" -> face(Faces(s.m))
         [] s.pc = "update" ->
              cell(n, Cells(s.m)) \cup cell(r, Cells(s.m))
              \cup face(Cells(s.m)) \cup face({jj + 1 : jj \in Cells(s.m)})
              \cup slope(Cells(s.m))
         [] s.pc = "time" -> {<<"cpu", 0, n>>}
         [] s.pc = "copy" -> cell(r, Cells(s.m)) \cup cell(n, Cells(s.m))
         [] OTHER -> {}

\* A faulty variant of Accesses: the slope loop reads both neighbours of
\* every cell.
AccessesUnguarded(s) == AccessesOf(s, -1, s.m)

\* Lines 119-402: the accesses of the statement at s.pc.
Accesses(s) == AccessesOf(s, 0, s.m - 1)

SlopeArrays == {"s_rho", "s_u", "s_p"}
FaceArrays == Arrays \ SlopeArrays

\* The access a falls inside its array, which is allocated.
InBounds(s, a) ==
    CASE a[1] = "cell" -> a[2] \in 0 .. NRows - 1 /\ a[3] \in 0 .. s.m - 1
      [] a[1] = "slope" ->
            a[3] \in 0 .. s.m - 1 /\ \A x \in SlopeArrays : s.mem[x] = "live"
      [] a[1] = "face" ->
            a[3] \in 0 .. s.m /\ \A x \in FaceArrays : s.mem[x] = "live"
      [] a[1] = "cpu" -> a[3] \in 0 .. NRows - 1
      [] OTHER -> FALSE

\* Every element that the statement changes is among its accesses.
WritesAccessed ==
    /\ \A r \in 0 .. NRows - 1, jj \in Cells(st.m) :
          (\/ st'.RHO[r][jj] # st.RHO[r][jj] \/ st'.U[r][jj] # st.U[r][jj]
           \/ st'.P[r][jj] # st.P[r][jj] \/ st'.E[r][jj] # st.E[r][jj])
          => <<"cell", r, jj>> \in Accesses(st)
    /\ \A jj \in Cells(st.m) :
          (\/ st'.s_rho[jj] # st.s_rho[jj] \/ st'.s_u[jj] # st.s_u[jj]
           \/ st'.s_p[jj] # st.s_p[jj])
          => <<"slope", 0, jj>> \in Accesses(st)
    /\ \A jj \in Faces(st.m) :
          (\/ st'.RHO_next[jj] # st.RHO_next[jj] \/ st'.U_next[jj] # st.U_next[jj]
           \/ st'.P_next[jj] # st.P_next[jj] \/ st'.RHO_t[jj] # st.RHO_t[jj]
           \/ st'.U_t[jj] # st.U_t[jj] \/ st'.P_t[jj] # st.P_t[jj]
           \/ st'.F1[jj] # st.F1[jj] \/ st'.F2[jj] # st.F2[jj]
           \/ st'.F3[jj] # st.F3[jj])
          => <<"face", 0, jj>> \in Accesses(st)

\* The caller's arrays keep their NRows rows of m cells, and the working
\* arrays their m and m+1 elements.
SameExtents ==
    /\ \A V \in {st.RHO, st.U, st.P, st.E} :
          DOMAIN V = 0 .. NRows - 1 /\ \A r \in DOMAIN V : DOMAIN V[r] = Cells(st.m)
    /\ \A V \in {st.s_rho, st.s_u, st.s_p} : DOMAIN V = Cells(st.m)
    /\ \A V \in {st.RHO_next, st.U_next, st.P_next, st.RHO_t, st.U_t, st.P_t,
                 st.F1, st.F2, st.F3} : DOMAIN V = Faces(st.m)

\* C20: every array access of the stepper is in bounds, for every m >= 1 and
\* through every step: cells and slopes in 0..m-1, interface arrays in 0..m,
\* rows 0 and 1 only (n stays 1) and element 1 of cpu_time only; the
\* caller's arrays are never resized, so two rows suffice.
C20_AccessesInBounds ==
    /\ [](/\ st.m >= 1
          /\ \A a \in Accesses(st) :
                /\ InBounds(st, a)
                /\ a[1] = "cell" => a[2] \in {n - 1, n}
                /\ a[1] = "cpu" => a[3] = 1
          /\ SameExtents)
    /\ [][WritesAccessed /\ st'.m = st.m]_vars

\* The update of step 2 on more than one cell: it touches both rows, the last
\* cell and the last interface.
C20_Witness ==
    /\ st.pc = "update" /\ st.k = 2 /\ st.m > 1
    /\ {<<"cell", 0, st.m - 1>>, <<"cell", 1, st.m - 1>>,
        <<"face", 0, st.m>>, <<"slope", 0, st.m - 1>>} \subseteq Accesses(st)

\* ------------------------------------------------------------ the driver
(* main of LAG_source.c: the row tables RHO, U, P, E, X of NRows rows,     *)
(* MASS and cpu_time are allocated one after the other, each failure of a  *)
(* row allocation jumping to _END_, which releases everything.  A pointer  *)
(* is "uninit" (declared or allocated, never assigned), "null", "live",   *)
(* or "input" (row 0 of RHO, U, P, which points into RHO0, U0, P0).        *)
Tables == <<"RHO", "U", "P", "E", "X">>
TableNames == {Tables[i] : i \in 1 .. Len(Tables)}
Inputs == {"RHO", "U", "P"}

\* argv[2]: 1 and 2 select a scheme, anything else is refused.
Orders == {1, 2, 3}

\* What an indeterminate pointer may hold: a null pointer or any other value.
Indeterminate == {"null", "wild"}

\* Lines 105-110: the declarations.
MainEntry(order, junk) ==
    [ pc |-> "table", t |-> 1, k |-> 0, order |-> order, junk |-> junk,
      tab |-> [x \in TableNames |-> "uninit"],
      row |-> [x \in TableNames |-> [r \in 0 .. NRows - 1 |-> "uninit"]],
      MASS |-> "uninit", cpu_time |-> "uninit",
      input |-> [x \in Inputs |-> "live"],
      freed |-> {}, faults |-> {} ]

\* free(p) of a pointer holding v: the fault it commits, if any.
FreeFaults(s, what, r, v) ==
    IF v = "uninit" /\ s.junk = "wild" THEN {<<"wild", what, r>>}
    ELSE IF v = "live" /\ <<what, r>> \in s.freed THEN {<<"double", what, r>>}
    ELSE {}
\* and the blocks it releases.
FreeBlocks(what, r, v) == IF v = "live" THEN {<<what, r>>} ELSE {}

\* T[r] of a row table T that is not an allocated table.
IndexFaults(s, x) == IF s.tab[x] = "live" THEN {} ELSE {<<"index", x, 0>>}

\* Lines 111-112, 122-123, 133-134, 144, 154: T = malloc(N * sizeof(double *))
\* is not tested; the next statement writes T[0] or T[k].
AllocTable(s, ok) ==
    LET x == Tables[s.t]
    IN IF ok
       THEN [s EXCEPT !.tab[x] = "live",
                      !.row[x][0] = IF x \in Inputs THEN "input" ELSE @,
                      !.k = IF x \in Inputs THEN 1 ELSE 0,
                      !.pc = "row"]
       ELSE [s EXCEPT !.tab[x] = "null", !.pc = "crashed",
                      !.faults = @ \cup {<<"setup", x, 0>>}]

\* Lines 113-121, 124-132, 135-143, 145-153, 155-163: T[k] = malloc(...),
\* if(T[k] == NULL) goto _END_.
AllocRow(s, ok) ==
    LET x == Tables[s.t]
    IN IF ~ok
       THEN [s EXCEPT !.row[x][s.k] = "null", !.pc = "end", !.k = 1]
       ELSE IF s.k + 1 < NRows
       THEN [s EXCEPT !.row[x][s.k] = "live", !.k = s.k + 1]
       ELSE IF s.t < Len(Tables)
       THEN [s EXCEPT !.row[x][s.k] = "live", !.t = s.t + 1, !.pc = "table"]
       ELSE [s EXCEPT !.row[x][s.k] = "live", !.pc = "MASS"]

\* Lines 164-176: MASS = malloc(...), and the initial values.
AllocMass(s, ok) ==
    IF ok THEN [s EXCEPT !.MASS = "live", !.pc = "cpu_time"]
    ELSE [s EXCEPT !.MASS = "null", !.pc = "end", !.k = 1]

\* Lines 178-183: cpu_time = malloc(N * sizeof(double)).
AllocCpuTime(s, ok) ==
    IF ok THEN [s EXCEPT !.cpu_time = "live", !.pc = "order"]
    ELSE [s EXCEPT !.cpu_time = "null", !.pc = "end", !.k = 1]

\* Lines 185-196: the scheme is run, or the order is refused.
ChooseOrder(s) ==
    IF s.order \in {1, 2} THEN [s EXCEPT !.pc = "write"]
    ELSE [s EXCEPT !.pc = "end", !.k = 1]

\* Lines 198-205: the output.
WriteOut(s) == [s EXCEPT !.pc = "end", !.k = 1]

\* Lines 207-220: free(T[k]); T[k] = NULL; for the five tables, k = 1 .. N-1.
EndRows(s) ==
    LET held == {x \in TableNames : s.tab[x] = "live"}
    IN [s EXCEPT
          !.faults = @ \cup UNION {IndexFaults(s, x) : x \in TableNames}
                       \cup UNION {FreeFaults(s, x, s.k, s.row[x][s.k]) : x \in held},
          !.freed = @ \cup UNION {FreeBlocks(x, s.k, s.row[x][s.k]) : x \in held},
          !.row = [x \in TableNames |->
                     IF x \in held THEN [s.row[x] EXCEPT ![s.k] = "null"]
                     ELSE s.row[x]],
          !.k = s.k + 1,
          !.pc = IF s.k + 1 < NRows THEN "end" ELSE "inputs"]

\* Lines 221-229: free(RHO0), free(U0), free(P0); RHO[0] = U[0] = P[0] = NULL.
EndInputs(s) ==
    [s EXCEPT
       !.faults = @ \cup UNION {IndexFaults(s, x) : x \in Inputs},
       !.input = [x \in Inputs |-> "freed"],
       !.row = [x \in TableNames |->
                  IF x \in Inputs /\ s.tab[x] = "live"
                  THEN [s.row[x] EXCEPT ![0] = "null"] ELSE s.row[x]],
       !.pc = "first"]

\* Lines 230-233: free(E[0]); free(X[0]); E[0] = NULL; X[0] = NULL.
EndFirstRows(s) ==
    LET held == {x \in {"E", "X"} : s.tab[x] = "live"}
    IN [s EXCEPT
          !.faults = @ \cup UNION {IndexFaults(s, x) : x \in {"E", "X"}}
                       \cup UNION {FreeFaults(s, x, 0, s.row[x][0]) : x \in held},
          !.freed = @ \cup UNION {FreeBlocks(x, 0, s.row[x][0]) : x \in held},
          !.row = [x \in TableNames |->
                     IF x \in held THEN [s.row[x] EXCEPT ![0] = "null"]
                     ELSE s.row[x]],
          !.pc = "mass"]

\* Lines 234-235: free(MASS); MASS = NULL.
EndMass(s) ==
    [s EXCEPT !.faults = @ \cup FreeFaults(s, "MASS", 0, s.MASS),
              !.freed = @ \cup FreeBlocks("MASS", 0, s.MASS),
              !.MASS = "null", !.pc = "clock"]

\* Lines 236-239: free(cpu_time); cpu_time = NULL; return 0.
EndCpuTime(s) ==
    [s EXCEPT !.faults = @ \cup FreeFaults(s, "cpu_time", 0, s.cpu_time),
              !.freed = @ \cup FreeBlocks("cpu_time", 0, s.cpu_time),
              !.cpu_time = "null", !.pc = "returned"]

MainInit ==
    /\ \E o \in Orders, g \in Indeterminate : st = MainEntry(o, g)
    /\ st2 = Off

MainTable == st.pc = "table" /\ (\E ok \in BOOLEAN : st' = AllocTable(st, ok)) /\ UNCHANGED st2
MainRow == st.pc = "row" /\ (\E ok \in BOOLEAN : st' = AllocRow(st, ok)) /\ UNCHANGED st2
MainMass == st.pc = "MASS" /\ (\E ok \in BOOLEAN : st' = AllocMass(st, ok)) /\ UNCHANGED st2
MainCpuTime ==
    st.pc = "cpu_time" /\ (\E ok \in BOOLEAN : st' = AllocCpuTime(st, ok)) /\ UNCHANGED st2
MainOrder == st.pc = "order" /\ st' = ChooseOrder(st) /\ UNCHANGED st2
MainWrite == st.pc = "write" /\ st' = WriteOut(st) /\ UNCHANGED st2
MainEndRows == st.pc = "end" /\ st' = EndRows(st) /\ UNCHANGED st2
MainEndInputs == st.pc = "inputs" /\ st' = EndInputs(st) /\ UNCHANGED st2
MainEndFirstRows == st.pc = "first" /\ st' = EndFirstRows(st) /\ UNCHANGED st2
MainEndMass == st.pc = "mass" /\ st' = EndMass(st) /\ UNCHANGED st2
MainEndCpuTime == st.pc = "clock" /\ st' = EndCpuTime(st) /\ UNCHANGED st2

MainNext ==
    \/ MainTable \/ MainRow \/ MainMass \/ MainCpuTime \/ MainOrder \/ MainWrite
    \/ MainEndRows \/ MainEndInputs \/ MainEndFirstRows \/ MainEndMass
    \/ MainEndCpuTime

SpecMain == MainInit /\ [][MainNext]_vars

\* The faults of the release code: a row table that is not allocated is
\* indexed, or a pointer is freed that is not null and not (or no longer) a
\* live block.
CleanupFaults == {f \in st.faults : f[1] \in {"index", "wild", "double"}}

\* C21 (as claimed): on every path to _END_, the allocation failures and the
\* refused order included, the release code indexes allocated row tables
\* only, frees allocated or null pointers only, and frees no block twice.
C21_CleanupTouchesOnlyAllocated == CleanupFaults = {}

\* The allocation of RHO[1] has failed and main has returned: the release
\* code indexed U, which was never assigned.
C21_Witness ==
    /\ st.pc = "returned" /\ st.row["RHO"][1] = "null" /\ st.tab["U"] = "uninit"
    /\ <<"index", "U", 0>> \in st.faults

\* What does hold: once MASS is allocated (so every row table and row is),
\* the release code commits no fault, whether it is entered after the
\* output, after the order was refused or after cpu_time could not be
\* allocated; and no block is freed twice on any path.
C21_CleanOnceAllAllocated ==
    /\ (st.MASS = "live" \/ <<"MASS", 0>> \in st.freed) => CleanupFaults = {}
    /\ \A f \in st.faults : f[1] # "double"

\* The order was refused with everything allocated, and main has returned
\* after releasing every block.
C21_CleanWitness ==
    /\ st.pc = "returned" /\ st.order = 3 /\ st.faults = {}
    /\ {<<"MASS", 0>>, <<"cpu_time", 0>>, <<"E", 0>>, <<"RHO", 1>>} \subseteq st.freed

====
